---- MODULE Spec2Model ----
(***************************************************************************)
(* A model of astrotools: the property engine of src/src/properties.rs     *)
(* (Property, RangeProperty, ChoiceProperty behind the Prop trait) and the *)
(* serial device contract of src/src/lib.rs with its CcdDevice             *)
(* implementation.                                                         *)
(***************************************************************************)
EXTENDS Integers, Sequences, FiniteSets, TLC

\* ------------------------------------------------------------------------
\* Bounds of the model
\* ------------------------------------------------------------------------
\* Values of the type parameter T are the integers 0..MaxVal.
MaxVal == 2
\* A ChoiceProperty's choices vector has at most MaxChoices elements.
MaxChoices == 2
\* Uuid::new_v4() draws the device id from 1..MaxId.
MaxId == 1

Values == 0..MaxVal

\* ------------------------------------------------------------------------
\* properties.rs: the data types
\* ------------------------------------------------------------------------
PropertyError == {"CannotUpdateReadOnlyProp", "InvalidValue"}

Permission == {"ReadOnly", "ReadWrite"}

\* Result<(), PropertyError>
Ok == "Ok"

Err(e) == e

Range_new(min, max) == [min |-> min, max |-> max]

Property_new(value, permission) ==
    [kind |-> "Plain", value |-> value, permission |-> permission]

RangeProperty_new(value, permission, min, max) ==
    [kind |-> "Range", value |-> value, permission |-> permission,
     range |-> Range_new(min, max)]

ChoiceProperty_new(value, permission, choices) ==
    [kind |-> "Choice", value |-> value, permission |-> permission,
     choices |-> choices]

\* Vec::contains
Contains(vec, val) == \E i \in 1..Len(vec) : vec[i] = val

\* A method of a property returns its Result together with the receiver as
\* the call leaves it.
Ret(self, res) == [self |-> self, res |-> res]

\* ------------------------------------------------------------------------
\* impl Prop<T> for Property<T>
\* ------------------------------------------------------------------------
Property_value(self) == self.value

\* Property_update_allowed with the permission test dropped.
Property_update_allowed_AlwaysOk(self) == Ok

Property_update_allowed(self) ==
    IF self.permission = "ReadOnly"
    THEN Err("CannotUpdateReadOnlyProp")
    ELSE Ok

Property_validate(self, val) == Ok

\* Property_update refusing a value the property already holds.
Property_update_RejectSame(self, value) ==
    IF Property_update_allowed(self) # Ok
    THEN Ret(self, Property_update_allowed(self))
    ELSE IF self.value = value
    THEN Ret(self, Err("InvalidValue"))
    ELSE Ret([self EXCEPT !.value = value], Ok)

\* Property_update returning Ok without storing the value.
Property_update_NoCommit(self, value) ==
    IF Property_update_allowed(self) # Ok
    THEN Ret(self, Property_update_allowed(self))
    ELSE Ret(self, Ok)

Property_update(self, value) ==
    IF Property_update_allowed(self) # Ok
    THEN Ret(self, Property_update_allowed(self))
    ELSE Ret([self EXCEPT !.value = value], Ok)

Property_update_int(self, value) ==
    Ret([self EXCEPT !.value = value], Ok)

\* ------------------------------------------------------------------------
\* impl Prop<T> for RangeProperty<T>
\* ------------------------------------------------------------------------
RangeProperty_value(self) == self.value

RangeProperty_update_allowed(self) ==
    IF self.permission = "ReadOnly"
    THEN Err("CannotUpdateReadOnlyProp")
    ELSE Ok

RangeProperty_validate(self, val) == Ok

RangeProperty_update(self, value) ==
    IF RangeProperty_update_allowed(self) # Ok
    THEN Ret(self, RangeProperty_update_allowed(self))
    ELSE Ret([self EXCEPT !.value = value], Ok)

\* RangeProperty_update_int stretching the bounds to hold the synced value.
RangeProperty_update_int_Widen(self, value) ==
    Ret([self EXCEPT !.value = value,
                     !.range = Range_new(
                         IF value < self.range.min THEN value ELSE self.range.min,
                         IF value > self.range.max THEN value ELSE self.range.max)],
        Ok)

RangeProperty_update_int(self, value) ==
    Ret([self EXCEPT !.value = value], Ok)

\* ------------------------------------------------------------------------
\* impl Prop<T> for ChoiceProperty<T>
\* ------------------------------------------------------------------------
ChoiceProperty_value(self) == self.value

ChoiceProperty_update_allowed(self) ==
    IF self.permission = "ReadOnly"
    THEN Err("CannotUpdateReadOnlyProp")
    ELSE Ok

\* ChoiceProperty_validate accepting everything, as the other variants do.
ChoiceProperty_validate_AlwaysOk(self, val) == Ok

ChoiceProperty_validate(self, val) ==
    IF ~Contains(self.choices, val)
    THEN Err("InvalidValue")
    ELSE Ok

\* ChoiceProperty_update with the two checks in the other order.
ChoiceProperty_update_ValidateFirst(self, value) ==
    IF ChoiceProperty_validate(self, value) # Ok
    THEN Ret(self, ChoiceProperty_validate(self, value))
    ELSE IF ChoiceProperty_update_allowed(self) # Ok
    THEN Ret(self, ChoiceProperty_update_allowed(self))
    ELSE Ret([self EXCEPT !.value = value], Ok)

\* ChoiceProperty_update committing without validate, as the other variants.
ChoiceProperty_update_NoValidate(self, value) ==
    IF ChoiceProperty_update_allowed(self) # Ok
    THEN Ret(self, ChoiceProperty_update_allowed(self))
    ELSE Ret([self EXCEPT !.value = value], Ok)

ChoiceProperty_update(self, value) ==
    IF ChoiceProperty_update_allowed(self) # Ok
    THEN Ret(self, ChoiceProperty_update_allowed(self))
    ELSE IF ChoiceProperty_validate(self, value) # Ok
    THEN Ret(self, ChoiceProperty_validate(self, value))
    ELSE Ret([self EXCEPT !.value = value], Ok)

\* ChoiceProperty_update_int gated by the permission like update.
ChoiceProperty_update_int_Gated(self, value) ==
    IF ChoiceProperty_update_allowed(self) # Ok
    THEN Ret(self, ChoiceProperty_update_allowed(self))
    ELSE IF ChoiceProperty_validate(self, value) # Ok
    THEN Ret(self, ChoiceProperty_validate(self, value))
    ELSE Ret([self EXCEPT !.value = value], Ok)

\* ChoiceProperty_update_int storing without validate, as the other variants.
ChoiceProperty_update_int_Unchecked(self, value) ==
    Ret([self EXCEPT !.value = value], Ok)

ChoiceProperty_update_int(self, value) ==
    IF ChoiceProperty_validate(self, value) # Ok
    THEN Ret(self, ChoiceProperty_validate(self, value))
    ELSE Ret([self EXCEPT !.value = value], Ok)

\* ------------------------------------------------------------------------
\* trait Prop<T>: a call is dispatched on the variant of the receiver
\* ------------------------------------------------------------------------
Prop_value(self) ==
    CASE self.kind = "Plain"  -> Property_value(self)
      [] self.kind = "Range"  -> RangeProperty_value(self)
      [] self.kind = "Choice" -> ChoiceProperty_value(self)

Prop_update_allowed(self) ==
    CASE self.kind = "Plain"  -> Property_update_allowed(self)
      [] self.kind = "Range"  -> RangeProperty_update_allowed(self)
      [] self.kind = "Choice" -> ChoiceProperty_update_allowed(self)

Prop_validate(self, val) ==
    CASE self.kind = "Plain"  -> Property_validate(self, val)
      [] self.kind = "Range"  -> RangeProperty_validate(self, val)
      [] self.kind = "Choice" -> ChoiceProperty_validate(self, val)

Prop_update(self, value) ==
    CASE self.kind = "Plain"  -> Property_update(self, value)
      [] self.kind = "Range"  -> RangeProperty_update(self, value)
      [] self.kind = "Choice" -> ChoiceProperty_update(self, value)

Prop_update_int(self, value) ==
    CASE self.kind = "Plain"  -> Property_update_int(self, value)
      [] self.kind = "Range"  -> RangeProperty_update_int(self, value)
      [] self.kind = "Choice" -> ChoiceProperty_update_int(self, value)

\* ------------------------------------------------------------------------
\* lib.rs: the serial device (impl AstronomicalDevice for CcdDevice)
\* ------------------------------------------------------------------------
\* Option<T>
None == <<>>

Some(x) == <<x>>

\* The address that names a serial port of some machine (lib.rs:35), and the
\* address of the test, which names none.
SerialPorts == {"/dev/ttyUSB0"}

Addresses == SerialPorts \cup {"foo"}

DeviceNames == {"/lol"}

Bauds == {9600}

Timeouts == {500}

PropNames == {"gain", "exposure"}

PropVals == {"1"}

Commands == {10}

\* serialport::new(address, baud).timeout(..).open_native(): the port opens
\* iff the address names a serial port present on the machine.
open_native(present, address, baud, timeout_ms) ==
    IF address \in present
    THEN [ok |-> TRUE,
          p  |-> [address |-> address, baud |-> baud, timeout |-> timeout_ms]]
    ELSE [ok |-> FALSE, p |-> None]

\* CcdDevice_new building the device whatever open_native returned.
CcdDevice_new_Unchecked(present, id, name, address, baud, timeout_ms) ==
    LET port == open_native(present, address, baud, timeout_ms)
    IN  Some([id         |-> id,
              name       |-> name,
              properties |-> <<>>,
              address    |-> address,
              baud       |-> baud,
              port       |-> port.p])

CcdDevice_new(present, id, name, address, baud, timeout_ms) ==
    LET port == open_native(present, address, baud, timeout_ms)
    IN  IF port.ok
        THEN Some([id         |-> id,
                   name       |-> name,
                   properties |-> <<>>,
                   address    |-> address,
                   baud       |-> baud,
                   port       |-> port.p])
        ELSE None

CcdDevice_send_command(self, comm, val) == Ret(self, <<"Ok", "OK">>)

CcdDevice_fetch_props(self) == self

CcdDevice_get_id(self) == self.id

CcdDevice_get_address(self) == self.address

CcdDevice_get_name(self) == self.name

CcdDevice_get_properties(self) == self.properties

CcdDevice_update_property(self, prop_name, val) == Ret(self, Ok)

CcdDevice_update_property_remote(self, prop_name, val) == Ret(self, Ok)

CcdDevice_find_property_index(self, prop_name) == None

\* ------------------------------------------------------------------------
\* The state machine
\* ------------------------------------------------------------------------
VARIABLES
    prop,      \* the property under examination (any of the three variants)
    device,    \* Option<CcdDevice>: what the last CcdDevice::new returned
    ports,     \* the serial ports present on the machine
    last,      \* the last call: its name, its arguments and what it returned
    repeated   \* the last call repeats the call before it (name and arguments)

vars == <<prop, device, ports, last, repeated>>

ChoiceVecs == UNION {[1..n -> Values] : n \in 0..MaxChoices}

\* Every property the three constructors build.
Constructed ==
    {Property_new(v, perm) : v \in Values, perm \in Permission}
    \cup {RangeProperty_new(v, perm, lo, hi) :
             v \in Values, perm \in Permission, lo \in Values, hi \in Values}
    \cup {ChoiceProperty_new(v, perm, c) :
             v \in Values, perm \in Permission, c \in ChoiceVecs}

Call(op, arg, res) ==
    /\ last' = [op |-> op, arg |-> arg, res |-> res]
    /\ repeated' = (last.op = op /\ last.arg = arg)

Init ==
    /\ prop \in Constructed
    /\ device = None
    /\ ports \in SUBSET SerialPorts
    /\ last = [op |-> "construct", arg |-> <<prop.value>>, res |-> Ok]
    /\ repeated = FALSE

\* --- the property engine ---
Value ==
    /\ Call("value", <<>>, Prop_value(prop))
    /\ UNCHANGED <<prop, device, ports>>

UpdateAllowed ==
    /\ Call("update_allowed", <<>>, Prop_update_allowed(prop))
    /\ UNCHANGED <<prop, device, ports>>

Validate(val) ==
    /\ Call("validate", <<val>>, Prop_validate(prop, val))
    /\ UNCHANGED <<prop, device, ports>>

Update(value) ==
    LET r == Prop_update(prop, value)
    IN  /\ prop' = r.self
        /\ Call("update", <<value>>, r.res)
        /\ UNCHANGED <<device, ports>>

UpdateInt(value) ==
    LET r == Prop_update_int(prop, value)
    IN  /\ prop' = r.self
        /\ Call("update_int", <<value>>, r.res)
        /\ UNCHANGED <<device, ports>>

\* --- the device ---
New(id, name, address, baud, timeout_ms) ==
    /\ device' = CcdDevice_new(ports, id, name, address, baud, timeout_ms)
    /\ Call("new", <<name, address, baud, timeout_ms>>,
            IF device' = None THEN "None" ELSE "Some")
    /\ UNCHANGED <<prop, ports>>

SendCommand(comm, val) ==
    /\ device # None
    /\ LET r == CcdDevice_send_command(device[1], comm, val)
       IN  /\ device' = Some(r.self)
           /\ Call("send_command", <<comm, val>>, r.res)
    /\ UNCHANGED <<prop, ports>>

FetchProps ==
    /\ device # None
    /\ device' = Some(CcdDevice_fetch_props(device[1]))
    /\ Call("fetch_props", <<>>, Ok)
    /\ UNCHANGED <<prop, ports>>

GetId ==
    /\ device # None
    /\ Call("get_id", <<>>, CcdDevice_get_id(device[1]))
    /\ UNCHANGED <<prop, device, ports>>

GetAddress ==
    /\ device # None
    /\ Call("get_address", <<>>, CcdDevice_get_address(device[1]))
    /\ UNCHANGED <<prop, device, ports>>

GetName ==
    /\ device # None
    /\ Call("get_name", <<>>, CcdDevice_get_name(device[1]))
    /\ UNCHANGED <<prop, device, ports>>

GetProperties ==
    /\ device # None
    /\ Call("get_properties", <<>>, CcdDevice_get_properties(device[1]))
    /\ UNCHANGED <<prop, device, ports>>

UpdateProperty(prop_name, val) ==
    /\ device # None
    /\ LET r == CcdDevice_update_property(device[1], prop_name, val)
       IN  /\ device' = Some(r.self)
           /\ Call("update_property", <<prop_name, val>>, r.res)
    /\ UNCHANGED <<prop, ports>>

UpdatePropertyRemote(prop_name, val) ==
    /\ device # None
    /\ LET r == CcdDevice_update_property_remote(device[1], prop_name, val)
       IN  /\ device' = Some(r.self)
           /\ Call("update_property_remote", <<prop_name, val>>, r.res)
    /\ UNCHANGED <<prop, ports>>

FindPropertyIndex(prop_name) ==
    /\ device # None
    /\ Call("find_property_index", <<prop_name>>,
            CcdDevice_find_property_index(device[1], prop_name))
    /\ UNCHANGED <<prop, device, ports>>

Next ==
    \/ Value
    \/ UpdateAllowed
    \/ \E val \in Values : Validate(val)
    \/ \E value \in Values : Update(value)
    \/ \E value \in Values : UpdateInt(value)
    \/ \E id \in 1..MaxId, name \in DeviceNames, address \in Addresses,
          baud \in Bauds, timeout_ms \in Timeouts :
          New(id, name, address, baud, timeout_ms)
    \/ \E comm \in Commands, val \in {None} \cup {Some(v) : v \in PropVals} :
          SendCommand(comm, val)
    \/ FetchProps
    \/ GetId
    \/ GetAddress
    \/ GetName
    \/ GetProperties
    \/ \E prop_name \in PropNames, val \in PropVals :
          UpdateProperty(prop_name, val)
    \/ \E prop_name \in PropNames, val \in PropVals :
          UpdatePropertyRemote(prop_name, val)
    \/ \E prop_name \in PropNames : FindPropertyIndex(prop_name)

Spec == Init /\ [][Next]_vars

\* ------------------------------------------------------------------------
\* Properties
\* ------------------------------------------------------------------------
\* val satisfies the constraint p declares: none for a plain property, the
\* inclusive bounds of a range property, membership for a choice property.
InDomain(p, val) ==
    CASE p.kind = "Plain"  -> TRUE
      [] p.kind = "Range"  -> p.range.min <= val /\ val <= p.range.max
      [] p.kind = "Choice" -> Contains(p.choices, val)

\* C1: on a ReadOnly property of any variant a client update(v) returns
\* Err(CannotUpdateReadOnlyProp) and leaves value() as it was, so no run of
\* client updates moves the value away from the constructed one.
C1_ReadOnlyRejectsUpdate ==
    [][(last'.op = "update" /\ prop.permission = "ReadOnly")
          => /\ last'.res = "CannotUpdateReadOnlyProp"
             /\ Prop_value(prop') = Prop_value(prop)]_vars

C1_Witness ==
    /\ last.op = "update"
    /\ prop.permission = "ReadOnly"
    /\ last.res = "CannotUpdateReadOnlyProp"
    /\ last.arg[1] # Prop_value(prop)

\* C2: on a Range property update(v) succeeds iff min <= v <= max and the
\* permission is ReadWrite; on a ReadWrite one update(min-1) and
\* update(max+1) fail with InvalidValue and leave value() as it was.
C2_RangeUpdateChecksBounds ==
    [][(last'.op = "update" /\ prop.kind = "Range")
          => LET v == last'.arg[1]
             IN  /\ (last'.res = Ok) <=>
                        (InDomain(prop, v) /\ prop.permission = "ReadWrite")
                 /\ (/\ prop.permission = "ReadWrite"
                     /\ v \in {prop.range.min - 1, prop.range.max + 1})
                        => /\ last'.res = "InvalidValue"
                           /\ Prop_value(prop') = Prop_value(prop)]_vars

\* C3: a Range property whose value is inside [min, max] keeps it inside
\* across every update and update_int.
C3_RangeValueStaysInBounds ==
    [][(prop.kind = "Range" /\ InDomain(prop, Prop_value(prop)))
          => InDomain(prop', Prop_value(prop'))]_vars

\* C4: the value of a Choice property is a member of its choices in every
\* reachable state, the one right after construction included.
C4_ChoiceValueInChoices ==
    prop.kind = "Choice" => Contains(prop.choices, Prop_value(prop))

\* C5: on a ReadWrite Choice property update(v) with v among the choices
\* returns Ok and makes value() v; with v not among them it returns
\* Err(InvalidValue) and leaves value() as it was.
C5_ChoiceUpdate ==
    [][(/\ last'.op = "update"
        /\ prop.kind = "Choice"
        /\ prop.permission = "ReadWrite")
          => LET v == last'.arg[1]
             IN  IF Contains(prop.choices, v)
                 THEN last'.res = Ok /\ Prop_value(prop') = v
                 ELSE /\ last'.res = "InvalidValue"
                      /\ Prop_value(prop') = Prop_value(prop)]_vars

C5_Witness ==
    /\ last.op = "update"
    /\ prop.kind = "Choice"
    /\ prop.permission = "ReadWrite"
    /\ ~Contains(prop.choices, last.arg[1])
    /\ last.res = "InvalidValue"
    /\ Contains(prop.choices, Prop_value(prop))

\* C6: update_int skips the permission check: on a ReadOnly property
\* update_int(newval) with newval in the declared domain returns Ok and
\* value() is newval right after, while update(newval) is rejected.
C6_UpdateIntBypassesPermission ==
    /\ (/\ last.op = "update_int"
        /\ prop.permission = "ReadOnly"
        /\ InDomain(prop, last.arg[1]))
          => last.res = Ok /\ Prop_value(prop) = last.arg[1]
    /\ (last.op = "update" /\ prop.permission = "ReadOnly")
          => last.res = "CannotUpdateReadOnlyProp"

C6_Witness ==
    /\ last.op = "update_int"
    /\ prop.kind = "Choice"
    /\ prop.permission = "ReadOnly"
    /\ Len(prop.choices) = 2
    /\ prop.choices[1] # prop.choices[2]
    /\ last.res = Ok
    /\ Prop_value(prop) = last.arg[1]

\* C7: a client update(v) on a ReadOnly property with v outside the range
\* or the choices returns CannotUpdateReadOnlyProp, never InvalidValue.
C7_PermissionBeforeValidity ==
    (/\ last.op = "update"
     /\ prop.permission = "ReadOnly"
     /\ ~InDomain(prop, last.arg[1]))
        => last.res = "CannotUpdateReadOnlyProp"

C7_Witness ==
    /\ last.op = "update"
    /\ prop.kind = "Choice"
    /\ prop.permission = "ReadOnly"
    /\ ~InDomain(prop, last.arg[1])
    /\ last.res = "CannotUpdateReadOnlyProp"

\* C8: update(v) with a valid v called twice in a row leaves the property
\* (value, permission, constraint) and the result as the first call left
\* them.
C8_UpdateIdempotent ==
    [][(/\ last.op = "update"
        /\ last'.op = "update"
        /\ last'.arg = last.arg
        /\ InDomain(prop, last.arg[1]))
          => prop' = prop /\ last'.res = last.res]_vars

C8_Witness ==
    /\ repeated
    /\ last.op = "update"
    /\ InDomain(prop, last.arg[1])
    /\ last.res = Ok
    /\ Prop_value(prop) = last.arg[1]

\* C9: CcdDevice::new returns None whenever the port at the address does
\* not open, and a device exists only with the port opened for it and its
\* fields set from the arguments.
C9_NewAllOrNothing ==
    /\ last.op = "new" =>
          LET port == open_native(ports, last.arg[2], last.arg[3], last.arg[4])
          IN  /\ ~port.ok => (device = None /\ last.res = "None")
              /\ port.ok => (device # None /\ last.res = "Some")
    /\ device # None =>
          LET d == device[1]
          IN  /\ d.address \in ports
              /\ d.port # None
              /\ d.port.address = d.address
              /\ d.port.baud = d.baud
              /\ d.properties = <<>>

C9_Witness ==
    /\ last.op = "new"
    /\ last.arg[2] = "foo"
    /\ ports # {}
    /\ device = None
    /\ last.res = "None"

\* C11: update_property(name, value) with a name find_property_index does
\* not find returns an error, never Ok as a silent no-op, and changes no
\* property of the device.
C11_UnknownNameIsAnError ==
    [][(/\ last'.op = "update_property"
        /\ CcdDevice_find_property_index(device[1], last'.arg[1]) = None)
          => /\ last'.res # Ok
             /\ CcdDevice_get_properties(device'[1])
                   = CcdDevice_get_properties(device[1])]_vars

\* C12: on a ReadWrite Plain property update(v) returns Ok for every v and
\* value() is v afterwards; a client update of a Plain property fails only
\* on the permission check.
C12_PlainUpdate ==
    [][(last'.op = "update" /\ prop.kind = "Plain")
          => IF prop.permission = "ReadWrite"
             THEN last'.res = Ok /\ Prop_value(prop') = last'.arg[1]
             ELSE last'.res = "CannotUpdateReadOnlyProp"]_vars

C12_Witness ==
    /\ last.op = "update"
    /\ prop.kind = "Plain"
    /\ prop.permission = "ReadWrite"
    /\ last.res = Ok
    /\ Prop_value(prop) = last.arg[1]
    /\ ~repeated

\* C13: validate(candidate) returns Err(InvalidValue) iff the candidate is
\* outside [min, max] of a Range property or not among the choices of a
\* Choice property, never for a Plain property, and leaves the property
\* as it was.
C13_ValidateChecksConstraint ==
    [][last'.op = "validate"
          => /\ (last'.res = "InvalidValue") <=> ~InDomain(prop, last'.arg[1])
             /\ last'.res \in {Ok, "InvalidValue"}
             /\ prop' = prop]_vars

\* C14: update(v) commits v (returns Ok, value() becomes v, nothing else
\* changes) iff update_allowed() and validate(v) both return Ok on the
\* property as it is before the call; otherwise the property is unchanged.
C14_UpdateComposesChecks ==
    [][last'.op = "update"
          => LET v == last'.arg[1]
             IN  IF /\ Prop_update_allowed(prop) = Ok
                    /\ Prop_validate(prop, v) = Ok
                 THEN /\ last'.res = Ok
                      /\ prop' = [prop EXCEPT !.value = v]
                 ELSE /\ last'.res # Ok
                      /\ prop' = prop]_vars

C14_Witness ==
    /\ last.op = "update"
    /\ prop.kind = "Choice"
    /\ Prop_update_allowed(prop) = Ok
    /\ Prop_validate(prop, last.arg[1]) = Ok
    /\ Len(prop.choices) = 2
    /\ prop.choices[1] # prop.choices[2]
    /\ last.res = Ok
    /\ Prop_value(prop) = last.arg[1]

\* C15: update_int(v) on a Choice property of either permission returns
\* Err(InvalidValue) and leaves value() as it was when v is not among the
\* choices, and returns Ok and makes value() v when it is.
C15_ChoiceUpdateIntValidates ==
    [][(last'.op = "update_int" /\ prop.kind = "Choice")
          => LET v == last'.arg[1]
             IN  IF Contains(prop.choices, v)
                 THEN last'.res = Ok /\ Prop_value(prop') = v
                 ELSE /\ last'.res = "InvalidValue"
                      /\ Prop_value(prop') = Prop_value(prop)]_vars

C15_Witness ==
    /\ last.op = "update_int"
    /\ prop.kind = "Choice"
    /\ prop.permission = "ReadOnly"
    /\ ~Contains(prop.choices, last.arg[1])
    /\ last.res = "InvalidValue"
    /\ Contains(prop.choices, Prop_value(prop))

\* C16: no call changes the variant, the permission, the range bounds or
\* the choices of a property; only the value changes, and only in an
\* update or an update_int.
C16_OnlyValueChanges ==
    [][/\ prop'.kind = prop.kind
       /\ prop'.permission = prop.permission
       /\ prop.kind = "Range" => prop'.range = prop.range
       /\ prop.kind = "Choice" => prop'.choices = prop.choices
       /\ Prop_value(prop') # Prop_value(prop)
             => last'.op \in {"update", "update_int"}]_vars

C16_Witness ==
    /\ last.op = "update_int"
    /\ prop.kind = "Range"
    /\ ~InDomain(prop, last.arg[1])
    /\ last.res = Ok
    /\ Prop_value(prop) = last.arg[1]

====
